---- MODULE Spec2Model ----
(***************************************************************************)
(* Model of the authorization-matrix scripts of springboot-jwt.            *)
(*                                                                         *)
(* scripts/v2_quick_test.py is modelled as a sequential process whose      *)
(* steps are its outbound requests: the two prerequisite checks, one token *)
(* request per user, one GET per (user, endpoint) pair, then the matrix    *)
(* display and the summary.  The identity provider and the resource server *)
(* are the environment: every request draws its answer from a small set.   *)
(*                                                                         *)
(* scripts/test-jwt.py is modelled the same way: the argument check, one   *)
(* token request, one GET per endpoint.  scripts/graphql_test.py collects  *)
(* the tokens of all users first and then sends one query per user that    *)
(* has a token.  A run executes one script; Init chooses which.            *)
(***************************************************************************)
EXTENDS Integers, Sequences, FiniteSets, TLC

\* ------------------------------------------------------------------------
\* Bounds of the environment
\* ------------------------------------------------------------------------

\* Number of probes in one run that the resource server may answer with
\* something else than its access policy (a wrong grant, a wrong denial, a
\* 401, a 204, a 500, one transient transport failure).  A lasting outage
\* (server_down) is not counted.
MaxDeviations == 2

\* ------------------------------------------------------------------------
\* Configuration of v2_quick_test.py
\* ------------------------------------------------------------------------

None == "None"

\* TEST_USERS: keys in insertion order and the username of each key.
TEST_USERS_keys == <<"user", "app-admin", "platform-admin">>

TEST_USERS == [k \in {"user", "app-admin", "platform-admin"} |->
                 CASE k = "user"           -> "basic_user"
                   [] k = "app-admin"      -> "appadmin"
                   [] k = "platform-admin" -> "babu.systech"]

\* ENDPOINTS: keys in insertion order and auth_required of each key.
ENDPOINTS_keys == <<"public", "user", "manager", "admin">>

ENDPOINTS == [k \in {"public", "user", "manager", "admin"} |->
                [auth_required |-> (k # "public")]]

\* EXPECTED_RESULTS as shipped.
EXPECTED_RESULTS ==
  [k \in {"user", "app-admin", "platform-admin"} |->
     [e \in {"public", "user", "manager", "admin"} |->
        CASE k = "user"           -> (IF e \in {"public", "user"} THEN 200 ELSE 403)
          [] k = "app-admin"      -> (IF e = "admin" THEN 403 ELSE 200)
          [] k = "platform-admin" -> 200]]

\* Variant of MatrixColumns: the last column is not read.
MatrixColumns_short == <<"public", "user", "manager">>

\* The column list display_results_matrix iterates over.
MatrixColumns == <<"public", "user", "manager", "admin">>

UserKeys     == {TEST_USERS_keys[i] : i \in 1..Len(TEST_USERS_keys)}
EndpointKeys == {ENDPOINTS_keys[i] : i \in 1..Len(ENDPOINTS_keys)}

Range(s) == {s[i] : i \in 1..Len(s)}

\* dict.get(key, default)
Get(d, k, default) == IF k \in DOMAIN d THEN d[k] ELSE default

\* The empty dict.
EmptyDict == [k \in {} |-> 0]

\* ------------------------------------------------------------------------
\* The environment: identity provider and resource server
\* ------------------------------------------------------------------------

\* What one token request can lead to: a 200 answer carrying access_token,
\* a 200 answer without one, a non-200 answer, an exception of requests.post.
IssuerOutcomes == {"token", "no_access_token", "http_error", "transport"}

\* A request that raised instead of returning a response.
ConnectionError == -1

\* Status codes the resource server answers with in the model.
StatusCodes == {200, 204, 401, 403, 500}

\* The access policy the resource server is configured with: the public
\* endpoint is open, a request without bearer header is unauthenticated, a
\* bearer token is granted what the authorization matrix gives its subject.
Policy(endpoint_key, authorization) ==
  IF ~ENDPOINTS[endpoint_key].auth_required THEN 200
  ELSE IF authorization = None THEN 401
  ELSE LET k == CHOOSE u \in UserKeys : TEST_USERS[u] = authorization
       IN  EXPECTED_RESULTS[k][endpoint_key]

\* ------------------------------------------------------------------------
\* Pure parts of v2_quick_test.py
\* ------------------------------------------------------------------------

\* Variant of get_jwt_token: the request names the platform admin, whoever
\* the token is meant for.
get_jwt_token_fixed_user(username, outcome) ==
  IF outcome = "token" THEN "babu.systech" ELSE None

\* get_jwt_token: the value returned for each outcome of the token request.
get_jwt_token(username, outcome) ==
  IF outcome = "token" THEN username ELSE None

\* What get_jwt_token prints for each outcome.
get_jwt_token_message(outcome) ==
  CASE outcome = "http_error" -> "Failed to get token"
    [] outcome = "transport"  -> "Error getting token"
    [] OTHER                  -> "nothing"

\* Variant of Authorization: the auth_required test is inverted.
Authorization_inverted(endpoint_key, token) ==
  IF token # None /\ ~ENDPOINTS[endpoint_key].auth_required
  THEN token ELSE None

\* test_endpoint: the Authorization header of the request (None: no header).
Authorization(endpoint_key, token) ==
  IF token # None /\ ENDPOINTS[endpoint_key].auth_required
  THEN token ELSE None

\* test_endpoint: the status code returned for a response or an exception.
test_endpoint_status(response) ==
  IF response = ConnectionError THEN 0 ELSE response

\* test_user_permissions: the token handed to test_endpoint.
test_token(endpoint_key, token) ==
  IF endpoint_key = "public" THEN None ELSE token

\* Variant of no_token_results: the early return hands back an empty row.
no_token_results_empty == [endpoint \in {} |-> 0]

\* test_user_permissions: the row returned when no token was obtained.
no_token_results == [endpoint \in EndpointKeys |-> 0]

\* test_user_permissions: colour of the status printed after each probe.
status_color(status_code) ==
  IF status_code = 200 THEN "GREEN"
  ELSE IF status_code = 403 THEN "RED"
  ELSE IF status_code = 401 THEN "YELLOW"
  ELSE "RED"

\* Variant of first_step_pc: the endpoints are probed before the token is
\* asked for.
first_step_pc_probe == "probe"

\* test_user_permissions: its first request is the token request.
first_step_pc == "token"

\* main: where the loop over TEST_USERS goes after the row of user_idx.
next_user_pc(i) == IF i < Len(TEST_USERS_keys) THEN "token" ELSE "display"

\* Variant of after_token_pc: a user without token is asked again.
after_token_pc_retry(tok, i) == IF tok = None THEN "token" ELSE "probe"

\* Variant of after_token_pc: a user without token ends the run.
after_token_pc_abort(tok, i) == IF tok = None THEN "exit" ELSE "probe"

\* test_user_permissions: what follows get_jwt_token.
after_token_pc(tok, i) == IF tok = None THEN next_user_pc(i) ELSE "probe"

\* Variant of formatted_result: two denials of any kind count as a match.
formatted_result_by_class(actual, expected_code) ==
  IF actual = expected_code \/ (actual # 200 /\ expected_code # 200)
  THEN (IF actual = 200 THEN "GREEN" ELSE "YELLOW")
  ELSE "RED"

\* display_results_matrix: colour of one cell.
formatted_result(actual, expected_code) ==
  IF actual = expected_code
  THEN (IF actual = 200 THEN "GREEN" ELSE "YELLOW")
  ELSE "RED"

\* Variant of all_match: all_match is overwritten by the last column.
all_match_last_column(row, expected_row) ==
  Get(row, MatrixColumns[Len(MatrixColumns)], 0)
    = expected_row[MatrixColumns[Len(MatrixColumns)]]

\* display_results_matrix: all_match after the loop over the four columns.
all_match(row, expected_row) ==
  \A i \in 1..Len(MatrixColumns) :
     Get(row, MatrixColumns[i], 0) = expected_row[MatrixColumns[i]]

\* Variant of matrix_row: a row without any answer is not held against
\* the user.
matrix_row_untested_pass(row, expected_row) ==
  [cells  |-> [endpoint \in Range(MatrixColumns) |->
                 formatted_result(Get(row, endpoint, 0), expected_row[endpoint])],
   status |-> IF \/ all_match(row, expected_row)
                 \/ \A endpoint \in Range(MatrixColumns) : Get(row, endpoint, 0) = 0
              THEN "PASS" ELSE "FAIL"]

\* display_results_matrix: the printed row of one user.
matrix_row(row, expected_row) ==
  [cells  |-> [endpoint \in Range(MatrixColumns) |->
                 formatted_result(Get(row, endpoint, 0), expected_row[endpoint])],
   status |-> IF all_match(row, expected_row) THEN "PASS" ELSE "FAIL"]

\* A row of the expectation matrix display_results_matrix can read.
RowReadable(exp, user_key) ==
  /\ user_key \in DOMAIN exp
  /\ Range(MatrixColumns) \subseteq DOMAIN exp[user_key]

\* display_expected_matrix raises KeyError iff a present row lacks a column.
ExpectedMatrixPrintable(exp) ==
  \A k \in DOMAIN exp :
     /\ k \in UserKeys
     /\ Range(MatrixColumns) \subseteq DOMAIN exp[k]

\* main: successful_users of the summary.
count_successful_users(results_by_user, exp) ==
  Cardinality({user_key \in DOMAIN results_by_user :
     \A endpoint \in EndpointKeys :
        Get(results_by_user[user_key], endpoint, 0) = exp[user_key][endpoint]})

\* Variant of overall_verdict: one successful user is enough.
overall_verdict_any(successful) ==
  IF successful >= 1 THEN "PASSED" ELSE "FAILED"

\* main: the branch of the final message.
overall_verdict(successful) ==
  IF successful = Len(TEST_USERS_keys) THEN "PASSED" ELSE "FAILED"

\* ------------------------------------------------------------------------
\* State of one run of v2_quick_test.py
\* ------------------------------------------------------------------------

VARIABLES
  pc,               \* position in main
  expected,         \* the expectation matrix the module was loaded with
  user_idx,         \* position of the loop over TEST_USERS.keys()
  endpoint_idx,     \* position of the loop over ENDPOINTS.keys()
  token,            \* token of test_user_permissions
  results,          \* results of test_user_permissions
  all_results,      \* all_results of main
  requests,         \* every request sent so far, in order
  token_log,        \* outcome of the token request of each user
  recorded,         \* how many outcomes were stored for each (user, endpoint)
  matrix,           \* rows printed by display_results_matrix
  successful_users, \* successful_users of the summary, -1 before it
  verdict,          \* final message: "none", "PASSED" or "FAILED"
  exit_code,        \* exit status of the process, -1 while it runs
  failures,         \* kinds of failure met so far
  deviations,       \* probes answered against the policy so far
  server_down,      \* the resource server has gone away for good
  jwt_pc,           \* position in main of test-jwt.py
  jwt_username,     \* sys.argv[1] of test-jwt.py
  jwt_access_token, \* access_token of main of test-jwt.py
  jwt_idx,          \* position of the loop over endpoints in test_endpoints
  gql_pc,           \* position in main of graphql_test.py
  gql_idx,          \* position of the current loop over TEST_USERS.items()
  gql_tokens,       \* tokens of collect_all_tokens
  cku_pc,           \* position in main of create-keycloak-users.py
  cku_admin_token,  \* admin_token of main of create-keycloak-users.py
  cku_idx,          \* position of the loop over USERS_TO_CREATE
  cku_success_count,\* success_count of main, -1 before it is set
  cku_message,      \* final message of create-keycloak-users.py
  cku_requests      \* user-creation requests sent so far, in order

vars == <<pc, expected, user_idx, endpoint_idx, token, results, all_results,
          requests, token_log, recorded, matrix, successful_users, verdict,
          exit_code, failures, deviations, server_down,
          jwt_pc, jwt_username, jwt_access_token, jwt_idx,
          gql_pc, gql_idx, gql_tokens,
          cku_pc, cku_admin_token, cku_idx, cku_success_count, cku_message,
          cku_requests>>

\* State that only create-keycloak-users.py touches.
cku_vars == <<cku_pc, cku_admin_token, cku_idx, cku_success_count,
              cku_message, cku_requests>>

\* State that only test-jwt.py touches.
jwt_vars == <<jwt_pc, jwt_username, jwt_access_token, jwt_idx>>

\* State that only graphql_test.py touches.
gql_vars == <<gql_pc, gql_idx, gql_tokens>>

\* State that only v2_quick_test.py touches.
v2_vars == <<pc, expected, user_idx, endpoint_idx, token, results,
             all_results, recorded, matrix, successful_users, verdict,
             deviations, server_down>>

Pairs == UserKeys \X EndpointKeys

\* One logged request: what was sent, the status code the script obtained
\* for it and what the script printed about it.
Request(kind, user_key, endpoint_key, authorization, status_code, printed) ==
  [kind |-> kind, user_key |-> user_key, endpoint_key |-> endpoint_key,
   authorization |-> authorization, status_code |-> status_code,
   printed |-> printed]

\* The state before the first step of either script, v2_quick_test.py being
\* loaded with the expectation matrix exp.
InitCommon(exp) ==
  /\ expected = exp
  /\ user_idx = 1
  /\ endpoint_idx = 1
  /\ token = None
  /\ results = EmptyDict
  /\ all_results = EmptyDict
  /\ requests = <<>>
  /\ token_log = EmptyDict
  /\ recorded = [p \in Pairs |-> 0]
  /\ matrix = EmptyDict
  /\ successful_users = -1
  /\ verdict = "none"
  /\ exit_code = -1
  /\ failures = {}
  /\ deviations = 0
  /\ server_down = FALSE
  /\ jwt_username = None
  /\ jwt_access_token = None
  /\ jwt_idx = 1
  /\ gql_idx = 1
  /\ gql_tokens = EmptyDict
  /\ cku_admin_token = None
  /\ cku_idx = 1
  /\ cku_success_count = -1
  /\ cku_message = "none"
  /\ cku_requests = <<>>

\* A run of v2_quick_test.py loaded with the expectation matrix exp.
InitWith(exp) ==
  /\ pc = "check_keycloak"
  /\ jwt_pc = "off"
  /\ cku_pc = "off"
  /\ gql_pc = "off"
  /\ InitCommon(exp)

\* A run of test-jwt.py.
InitJwt ==
  /\ pc = "off"
  /\ jwt_pc = "main"
  /\ cku_pc = "off"
  /\ gql_pc = "off"
  /\ InitCommon(EXPECTED_RESULTS)

\* A run of graphql_test.py.
InitGql ==
  /\ pc = "off"
  /\ jwt_pc = "off"
  /\ cku_pc = "off"
  /\ gql_pc = "check_keycloak"
  /\ InitCommon(EXPECTED_RESULTS)

\* A run of create-keycloak-users.py.
InitCku ==
  /\ pc = "off"
  /\ jwt_pc = "off"
  /\ gql_pc = "off"
  /\ cku_pc = "main"
  /\ InitCommon(EXPECTED_RESULTS)

Init == InitWith(EXPECTED_RESULTS) \/ InitJwt \/ InitGql \/ InitCku

\* EXPECTED_RESULTS edited to lack the row of one user or one cell of a row.
WithoutRow(user_key) ==
  [k \in UserKeys \ {user_key} |-> EXPECTED_RESULTS[k]]

WithoutCell(user_key, endpoint_key) ==
  [k \in UserKeys |->
     [e \in (IF k = user_key THEN EndpointKeys \ {endpoint_key}
                              ELSE EndpointKeys) |-> EXPECTED_RESULTS[k][e]]]

IncompleteMatrices ==
  {WithoutRow(k) : k \in UserKeys}
  \cup {WithoutCell(p[1], p[2]) : p \in Pairs}

\* An expectation matrix that is total over TEST_USERS x ENDPOINTS.
Complete(exp) ==
  \A p \in Pairs : p[1] \in DOMAIN exp /\ p[2] \in DOMAIN exp[p[1]]

InitConfig ==
  \/ \E exp \in IncompleteMatrices \cup {EXPECTED_RESULTS} : InitWith(exp)
  \/ InitJwt
  \/ InitGql
  \/ InitCku

\* Answers to a prerequisite request: 200, another status, an exception.
PrerequisiteAnswers == {200, 500, ConnectionError}

FailureKind(response) ==
  IF response = ConnectionError THEN {"transport"} ELSE {}

\* check_prerequisites, first half, and main's sys.exit(1) when it fails.
check_keycloak ==
  /\ pc = "check_keycloak"
  /\ \E response \in PrerequisiteAnswers :
       /\ requests' = Append(requests,
            Request("prerequisite", "-", "keycloak", None,
                    test_endpoint_status(response), "-"))
       /\ failures' = failures \cup FailureKind(response)
       /\ IF response = 200
          THEN pc' = "check_spring_boot" /\ exit_code' = exit_code
          ELSE pc' = "exit" /\ exit_code' = 1
  /\ UNCHANGED <<expected, user_idx, endpoint_idx, token, results,
                 all_results, token_log, recorded, matrix, successful_users,
                 verdict, deviations, server_down,
                 jwt_pc, jwt_username, jwt_access_token, jwt_idx,
                 gql_pc, gql_idx, gql_tokens>>
  /\ UNCHANGED cku_vars

\* check_prerequisites, second half, and main's sys.exit(1) when it fails.
check_spring_boot ==
  /\ pc = "check_spring_boot"
  /\ \E response \in PrerequisiteAnswers :
       /\ requests' = Append(requests,
            Request("prerequisite", "-", "public", None,
                    test_endpoint_status(response), "-"))
       /\ failures' = failures \cup FailureKind(response)
       /\ IF response = 200
          THEN pc' = "display_expected_matrix" /\ exit_code' = exit_code
          ELSE pc' = "exit" /\ exit_code' = 1
  /\ UNCHANGED <<expected, user_idx, endpoint_idx, token, results,
                 all_results, token_log, recorded, matrix, successful_users,
                 verdict, deviations, server_down,
                 jwt_pc, jwt_username, jwt_access_token, jwt_idx,
                 gql_pc, gql_idx, gql_tokens>>
  /\ UNCHANGED cku_vars

\* display_expected_matrix: prints every row of the matrix; a row that lacks
\* a column raises KeyError, which nothing catches.
display_expected_matrix ==
  /\ pc = "display_expected_matrix"
  /\ IF ExpectedMatrixPrintable(expected)
     THEN pc' = first_step_pc /\ exit_code' = exit_code
     ELSE pc' = "crashed" /\ exit_code' = 1
  /\ UNCHANGED <<expected, user_idx, endpoint_idx, token, results,
                 all_results, requests, token_log, recorded, matrix,
                 successful_users, verdict, failures, deviations, server_down,
                 jwt_pc, jwt_username, jwt_access_token, jwt_idx,
                 gql_pc, gql_idx, gql_tokens>>
  /\ UNCHANGED cku_vars

\* test_user_permissions up to and including the return of the no-token row.
request_token ==
  /\ pc = "token"
  /\ LET user_key == TEST_USERS_keys[user_idx]
         username == TEST_USERS[user_key]
     IN \E outcome \in IssuerOutcomes :
        LET tok == get_jwt_token(username, outcome)
        IN /\ requests' = Append(requests,
                Request("token", user_key, "-", None,
                        IF outcome = "transport" THEN 0
                        ELSE IF outcome = "http_error" THEN 401 ELSE 200,
                        get_jwt_token_message(outcome)))
           /\ token_log' = (user_key :> outcome) @@ token_log
           /\ token' = tok
           /\ failures' = failures
                \cup (IF tok = None THEN {"token"} ELSE {})
                \cup (IF outcome = "transport" THEN {"transport"} ELSE {})
           /\ pc' = after_token_pc(tok, user_idx)
           /\ endpoint_idx' = 1
           /\ IF tok = None
              THEN /\ results' = no_token_results
                   /\ all_results' = (user_key :> no_token_results) @@ all_results
                   /\ recorded' = [p \in Pairs |->
                        IF p[1] = user_key /\ p[2] \in DOMAIN no_token_results
                        THEN recorded[p] + 1 ELSE recorded[p]]
                   /\ user_idx' = IF user_idx < Len(TEST_USERS_keys)
                                  THEN user_idx + 1 ELSE user_idx
              ELSE /\ results' = EmptyDict
                   /\ UNCHANGED <<all_results, recorded, user_idx>>
  /\ UNCHANGED <<expected, matrix, successful_users, verdict, exit_code,
                 deviations, server_down,
                 jwt_pc, jwt_username, jwt_access_token, jwt_idx,
                 gql_pc, gql_idx, gql_tokens>>
  /\ UNCHANGED cku_vars

\* What the resource server may answer to one probe.
ProbeAnswers(endpoint_key, authorization) ==
  IF server_down THEN {ConnectionError}
  ELSE {Policy(endpoint_key, authorization)}
       \cup (IF deviations < MaxDeviations
             THEN StatusCodes \cup {ConnectionError} ELSE {})

\* One turn of the loop over ENDPOINTS.keys() in test_user_permissions:
\* test_endpoint, the store into results and, after the last endpoint, the
\* return to main and the store into all_results.
test_endpoint ==
  /\ pc = "probe"
  /\ LET user_key      == TEST_USERS_keys[user_idx]
         endpoint_key  == ENDPOINTS_keys[endpoint_idx]
         authorization == Authorization(endpoint_key,
                                        test_token(endpoint_key, token))
         last          == endpoint_idx = Len(ENDPOINTS_keys)
     IN \E response \in ProbeAnswers(endpoint_key, authorization),
           outage \in BOOLEAN :
        LET status_code == test_endpoint_status(response)
            row         == (endpoint_key :> status_code) @@ results
        IN /\ outage => (response = ConnectionError /\ ~server_down)
           /\ server_down' = (server_down \/ outage)
           /\ deviations' =
                IF server_down \/ outage
                   \/ response = Policy(endpoint_key, authorization)
                THEN deviations ELSE deviations + 1
           /\ requests' = Append(requests,
                Request("probe", user_key, endpoint_key, authorization,
                        status_code, status_color(status_code)))
           /\ failures' = failures \cup FailureKind(response)
           /\ recorded' = [recorded EXCEPT ![<<user_key, endpoint_key>>] = @ + 1]
           /\ IF last
              THEN /\ all_results' = (user_key :> row) @@ all_results
                   /\ results' = row
                   /\ pc' = next_user_pc(user_idx)
                   /\ user_idx' = IF user_idx < Len(TEST_USERS_keys)
                                  THEN user_idx + 1 ELSE user_idx
                   /\ endpoint_idx' = 1
              ELSE /\ results' = row
                   /\ endpoint_idx' = endpoint_idx + 1
                   /\ UNCHANGED <<all_results, pc, user_idx>>
  /\ UNCHANGED <<expected, token, token_log, matrix, successful_users,
                 verdict, exit_code,
                 jwt_pc, jwt_username, jwt_access_token, jwt_idx,
                 gql_pc, gql_idx, gql_tokens>>
  /\ UNCHANGED cku_vars

\* Number of rows display_results_matrix prints before a row of the
\* expectation matrix is missing (all of them when none is).
RECURSIVE PrintedRows(_, _)
PrintedRows(keys, exp) ==
  IF keys = <<>> \/ ~RowReadable(exp, Head(keys)) THEN 0
  ELSE 1 + PrintedRows(Tail(keys), exp)

\* Keys of all_results in insertion order.
ResultKeys == SelectSeq(TEST_USERS_keys, LAMBDA k : k \in DOMAIN all_results)

\* display_results_matrix: one printed row per entry of all_results; a user
\* without a row in the expectation matrix raises KeyError.
display_results_matrix ==
  /\ pc = "display"
  /\ LET n == PrintedRows(ResultKeys, expected)
     IN /\ matrix' = [user_key \in {ResultKeys[i] : i \in 1..n} |->
                        matrix_row(all_results[user_key], expected[user_key])]
        /\ IF n = Len(ResultKeys)
           THEN pc' = "summary" /\ exit_code' = exit_code
           ELSE pc' = "crashed" /\ exit_code' = 1
  /\ UNCHANGED <<expected, user_idx, endpoint_idx, token, results,
                 all_results, requests, token_log, recorded,
                 successful_users, verdict, failures, deviations, server_down,
                 jwt_pc, jwt_username, jwt_access_token, jwt_idx,
                 gql_pc, gql_idx, gql_tokens>>
  /\ UNCHANGED cku_vars

\* main: the summary and the final message; the process then ends normally.
summary ==
  /\ pc = "summary"
  /\ successful_users' = count_successful_users(all_results, expected)
  /\ verdict' = overall_verdict(successful_users')
  /\ pc' = "done"
  /\ exit_code' = 0
  /\ UNCHANGED <<expected, user_idx, endpoint_idx, token, results,
                 all_results, requests, token_log, recorded, matrix,
                 failures, deviations, server_down,
                 jwt_pc, jwt_username, jwt_access_token, jwt_idx,
                 gql_pc, gql_idx, gql_tokens>>
  /\ UNCHANGED cku_vars

\* ------------------------------------------------------------------------
\* test-jwt.py
\* ------------------------------------------------------------------------

\* USERS of test-jwt.py.
USERS == {"nexus-user", "nexus-manager", "nexus-admin"}

\* The endpoints list of test_endpoints: name and needs_auth.
jwt_endpoints ==
  << [name |-> "Public",  needs_auth |-> FALSE],
     [name |-> "User",    needs_auth |-> TRUE],
     [name |-> "Manager", needs_auth |-> TRUE],
     [name |-> "Admin",   needs_auth |-> TRUE] >>

\* Command lines of the model: no argument, a configured user, a stranger.
CommandLines == {None, "nexus-user", "nexus-admin", "stranger"}

\* What the token request of test-jwt.py can lead to: the outcomes of
\* IssuerOutcomes, a 200 answer with an empty JSON object, and, the request
\* having no timeout, no answer at all.
JwtIssuerOutcomes == IssuerOutcomes \cup {"empty_json", "no_answer"}

\* A request without timeout that never gets an answer.
NoAnswer == -2

\* test_endpoints: the headers of one request (None: no header).  The
\* bearer header is built from the token even when the token is None.
jwt_headers(needs_auth, access_token) ==
  IF needs_auth
  THEN (IF access_token = None THEN "Bearer None" ELSE access_token)
  ELSE None

\* test_endpoints: the line printed for a response or a RequestException.
jwt_status_line(response) ==
  IF response = ConnectionError THEN "Error"
  ELSE IF response = 200 THEN "OK"
  ELSE IF response = 401 THEN "Unauthorized"
  ELSE IF response = 403 THEN "Forbidden"
  ELSE "Other"

\* main of test-jwt.py: the checks of sys.argv.
jwt_main ==
  /\ jwt_pc = "main"
  /\ \E argv \in CommandLines :
       /\ jwt_username' = argv
       /\ IF argv = None \/ argv \notin USERS
          THEN jwt_pc' = "exit" /\ exit_code' = 1
          ELSE jwt_pc' = "token" /\ exit_code' = exit_code
  /\ UNCHANGED <<requests, token_log, failures, jwt_access_token, jwt_idx>>
  /\ UNCHANGED v2_vars
  /\ UNCHANGED gql_vars
  /\ UNCHANGED cku_vars

\* get_jwt_token of test-jwt.py and what main does with its result.
jwt_get_jwt_token ==
  /\ jwt_pc = "token"
  /\ \E outcome \in JwtIssuerOutcomes :
       /\ token_log' = (jwt_username :> outcome) @@ token_log
       /\ requests' = Append(requests,
            Request("token", jwt_username, "-", None,
                    IF outcome \in {"transport", "no_answer"} THEN 0
                    ELSE IF outcome = "http_error" THEN 401 ELSE 200,
                    IF outcome \in {"transport", "http_error"}
                    THEN "Failed to get token" ELSE "nothing"))
       /\ failures' = failures
            \cup (IF outcome \notin {"token", "no_answer"} THEN {"token"} ELSE {})
            \cup (IF outcome = "transport" THEN {"transport"} ELSE {})
       /\ CASE outcome = "no_answer" ->
                 /\ jwt_pc' = "blocked"
                 /\ UNCHANGED <<exit_code, jwt_access_token>>
            [] outcome \in {"transport", "http_error", "empty_json"} ->
                 /\ jwt_pc' = "exit"
                 /\ exit_code' = 1
                 /\ UNCHANGED jwt_access_token
            [] OTHER ->
                 /\ jwt_pc' = "endpoints"
                 /\ jwt_access_token' =
                      (IF outcome = "token" THEN jwt_username ELSE None)
                 /\ UNCHANGED exit_code
  /\ UNCHANGED <<jwt_username, jwt_idx>>
  /\ UNCHANGED v2_vars
  /\ UNCHANGED gql_vars
  /\ UNCHANGED cku_vars

\* One turn of the loop of test_endpoints; after the last one main prints
\* the token and the process ends normally.
jwt_test_endpoints ==
  /\ jwt_pc = "endpoints"
  /\ LET endpoint == jwt_endpoints[jwt_idx]
         headers  == jwt_headers(endpoint.needs_auth, jwt_access_token)
     IN \E response \in StatusCodes \cup {ConnectionError, NoAnswer} :
        IF response = NoAnswer
        THEN /\ jwt_pc' = "blocked"
             /\ requests' = Append(requests,
                  Request("probe", jwt_username, endpoint.name, headers,
                          0, "nothing"))
             /\ UNCHANGED <<exit_code, failures, jwt_idx>>
        ELSE /\ requests' = Append(requests,
                  Request("probe", jwt_username, endpoint.name, headers,
                          test_endpoint_status(response),
                          jwt_status_line(response)))
             /\ failures' = failures \cup FailureKind(response)
             /\ IF jwt_idx = Len(jwt_endpoints)
                THEN jwt_pc' = "done" /\ exit_code' = 0 /\ jwt_idx' = jwt_idx
                ELSE jwt_pc' = jwt_pc /\ exit_code' = exit_code
                     /\ jwt_idx' = jwt_idx + 1
  /\ UNCHANGED <<token_log, jwt_username, jwt_access_token>>
  /\ UNCHANGED v2_vars
  /\ UNCHANGED gql_vars
  /\ UNCHANGED cku_vars

\* ------------------------------------------------------------------------
\* graphql_test.py
\* ------------------------------------------------------------------------

\* TEST_USERS of graphql_test.py: keys in insertion order and usernames.
GQL_TEST_USERS_keys == <<"basic_user", "app_admin", "platform_admin">>

GQL_TEST_USERS == [k \in {"basic_user", "app_admin", "platform_admin"} |->
                     CASE k = "basic_user"     -> "basic_user"
                       [] k = "app_admin"      -> "appadmin"
                       [] k = "platform_admin" -> "babu.systech"]

\* GRAPHQL_QUERIES: auth_required of each query.
GRAPHQL_QUERIES == [k \in {"users", "user", "userByUsername"} |->
                      [auth_required |-> TRUE]]

\* A 200 answer whose JSON body carries "errors".
GraphQLErrors == -3

\* test_graphql_query: the Authorization header of the request.
gql_authorization(query_key, tok) ==
  IF tok # None /\ GRAPHQL_QUERIES[query_key].auth_required
  THEN tok ELSE None

\* test_graphql_query: the status message returned.
gql_status_message(response) ==
  IF response = ConnectionError THEN "Connection Error"
  ELSE IF response = GraphQLErrors THEN "GraphQL Error"
  ELSE IF response = 200 THEN "Success"
  ELSE "HTTP Error"

\* check_prerequisites of graphql_test.py, first half, and main's
\* sys.exit(1) when it fails.
gql_check_keycloak ==
  /\ gql_pc = "check_keycloak"
  /\ \E response \in PrerequisiteAnswers :
       /\ requests' = Append(requests,
            Request("prerequisite", "-", "keycloak", None,
                    test_endpoint_status(response), "-"))
       /\ failures' = failures \cup FailureKind(response)
       /\ IF response = 200
          THEN gql_pc' = "check_graphql" /\ exit_code' = exit_code
          ELSE gql_pc' = "exit" /\ exit_code' = 1
  /\ UNCHANGED <<token_log, gql_idx, gql_tokens>>
  /\ UNCHANGED v2_vars
  /\ UNCHANGED jwt_vars
  /\ UNCHANGED cku_vars

\* check_prerequisites of graphql_test.py, second half: 200 and 401 both
\* show that the GraphQL endpoint is there.
gql_check_graphql ==
  /\ gql_pc = "check_graphql"
  /\ \E response \in PrerequisiteAnswers \cup {401} :
       /\ requests' = Append(requests,
            Request("prerequisite", "-", "graphql", None,
                    test_endpoint_status(response), "-"))
       /\ failures' = failures \cup FailureKind(response)
       /\ IF response \in {200, 401}
          THEN gql_pc' = "collect" /\ exit_code' = exit_code
          ELSE gql_pc' = "exit" /\ exit_code' = 1
  /\ UNCHANGED <<token_log, gql_idx, gql_tokens>>
  /\ UNCHANGED v2_vars
  /\ UNCHANGED jwt_vars
  /\ UNCHANGED cku_vars

\* One turn of the loop of collect_all_tokens.
gql_collect_all_tokens ==
  /\ gql_pc = "collect"
  /\ LET user_key == GQL_TEST_USERS_keys[gql_idx]
         username == GQL_TEST_USERS[user_key]
     IN \E outcome \in IssuerOutcomes :
        LET tok == get_jwt_token(username, outcome)
        IN /\ requests' = Append(requests,
                Request("token", user_key, "-", None,
                        IF outcome = "transport" THEN 0
                        ELSE IF outcome = "http_error" THEN 401 ELSE 200,
                        get_jwt_token_message(outcome)))
           /\ token_log' = (user_key :> outcome) @@ token_log
           /\ gql_tokens' = (user_key :> tok) @@ gql_tokens
           /\ failures' = failures
                \cup (IF tok = None THEN {"token"} ELSE {})
                \cup (IF outcome = "transport" THEN {"transport"} ELSE {})
  /\ IF gql_idx < Len(GQL_TEST_USERS_keys)
     THEN gql_idx' = gql_idx + 1 /\ gql_pc' = gql_pc
     ELSE gql_idx' = 1 /\ gql_pc' = "test"
  /\ UNCHANGED exit_code
  /\ UNCHANGED v2_vars
  /\ UNCHANGED jwt_vars
  /\ UNCHANGED cku_vars

\* One turn of the loop of test_all_users_authentication: a user without
\* token is skipped, a user with one sends the "users" query.  After the
\* last user main ends normally.
gql_test_all_users_authentication ==
  /\ gql_pc = "test"
  /\ LET user_key == GQL_TEST_USERS_keys[gql_idx]
         tok      == Get(gql_tokens, user_key, None)
     IN IF tok = None
        THEN UNCHANGED <<requests, failures>>
        ELSE \E response \in StatusCodes \cup {ConnectionError, GraphQLErrors} :
               /\ requests' = Append(requests,
                    Request("probe", user_key, "users",
                            gql_authorization("users", tok),
                            IF response = GraphQLErrors THEN 200
                            ELSE test_endpoint_status(response),
                            gql_status_message(response)))
               /\ failures' = failures \cup FailureKind(response)
  /\ IF gql_idx < Len(GQL_TEST_USERS_keys)
     THEN gql_idx' = gql_idx + 1 /\ gql_pc' = gql_pc /\ exit_code' = exit_code
     ELSE gql_idx' = gql_idx /\ gql_pc' = "done" /\ exit_code' = 0
  /\ UNCHANGED <<token_log, gql_tokens>>
  /\ UNCHANGED v2_vars
  /\ UNCHANGED jwt_vars
  /\ UNCHANGED cku_vars

\* ------------------------------------------------------------------------
\* create-keycloak-users.py
\* ------------------------------------------------------------------------

\* USERS_TO_CREATE: the usernames, in list order.
USERS_TO_CREATE == <<"basic_user", "appadmin", "babu.systech">>

\* ADMIN_USERNAME, whose token stands for the admin token.
ADMIN_USERNAME == "admin"

\* What the master realm may do with the token request of get_admin_token:
\* the outcomes of the issuer, a 200 answer whose access_token is the empty
\* string, and no answer at all (the request has no timeout).
AdminIssuerOutcomes == IssuerOutcomes \cup {"empty_token", "no_answer"}

\* get_admin_token: the value returned for an outcome that answers.
get_admin_token(outcome) ==
  CASE outcome = "token"       -> ADMIN_USERNAME
    [] outcome = "empty_token" -> ""
    [] OTHER                   -> None

\* main: the test "if not admin_token" of a returned value.
not_admin_token(admin_token) == admin_token = None \/ admin_token = ""

\* Answers of the admin API to a creation request.
CreateAnswers == {201, 409, 400, 403, 500, ConnectionError}

\* Variant of create_user: an existing user is not a success.
create_user_created_only(response) == response = 201

\* create_user: the value returned for the answer to the creation request.
create_user(response) == response \in {201, 409}

\* main: the branch of the final message.
final_message(success_count) ==
  IF success_count = Len(USERS_TO_CREATE) THEN "all_created" ELSE "some_failed"

\* A creation request as create_user sends it.
CreateRequest(username, authorization, status_code) ==
  [username |-> username, authorization |-> authorization,
   status_code |-> status_code]

\* main: get_admin_token and the return when no token came back.
cku_get_admin_token ==
  /\ cku_pc = "main"
  /\ \E outcome \in AdminIssuerOutcomes :
       IF outcome = "no_answer"
       THEN /\ cku_pc' = "blocked"
            /\ UNCHANGED <<cku_admin_token, cku_success_count, cku_message,
                           exit_code, failures>>
       ELSE /\ cku_admin_token' = get_admin_token(outcome)
            /\ failures' = failures
                 \cup (IF outcome # "token" THEN {"token"} ELSE {})
                 \cup (IF outcome = "transport" THEN {"transport"} ELSE {})
            /\ IF not_admin_token(cku_admin_token')
               THEN /\ cku_pc' = "done"
                    /\ cku_message' = "no_auth"
                    /\ exit_code' = 0
                    /\ UNCHANGED cku_success_count
               ELSE /\ cku_pc' = "create"
                    /\ cku_success_count' = 0
                    /\ UNCHANGED <<cku_message, exit_code>>
  /\ UNCHANGED <<cku_idx, cku_requests, requests, token_log>>
  /\ UNCHANGED v2_vars
  /\ UNCHANGED jwt_vars
  /\ UNCHANGED gql_vars

\* One turn of the loop over USERS_TO_CREATE: create_user and the count.
cku_create_user ==
  /\ cku_pc = "create"
  /\ LET username == USERS_TO_CREATE[cku_idx]
     IN \E response \in CreateAnswers \cup {NoAnswer} :
        IF response = NoAnswer
        THEN /\ cku_pc' = "blocked"
             /\ cku_requests' = Append(cku_requests,
                  CreateRequest(username, cku_admin_token, 0))
             /\ UNCHANGED <<cku_idx, cku_success_count, failures>>
        ELSE /\ cku_requests' = Append(cku_requests,
                  CreateRequest(username, cku_admin_token,
                                test_endpoint_status(response)))
             /\ failures' = failures \cup FailureKind(response)
             /\ cku_success_count' =
                  (IF create_user(response) THEN cku_success_count + 1
                   ELSE cku_success_count)
             /\ IF cku_idx = Len(USERS_TO_CREATE)
                THEN cku_pc' = "report" /\ cku_idx' = cku_idx
                ELSE cku_pc' = cku_pc /\ cku_idx' = cku_idx + 1
  /\ UNCHANGED <<cku_admin_token, cku_message, exit_code, requests, token_log>>
  /\ UNCHANGED v2_vars
  /\ UNCHANGED jwt_vars
  /\ UNCHANGED gql_vars

\* main: the count and the final message; the process then ends normally.
cku_report ==
  /\ cku_pc = "report"
  /\ cku_message' = final_message(cku_success_count)
  /\ cku_pc' = "done"
  /\ exit_code' = 0
  /\ UNCHANGED <<cku_admin_token, cku_idx, cku_success_count, cku_requests,
                 requests, token_log, failures>>
  /\ UNCHANGED v2_vars
  /\ UNCHANGED jwt_vars
  /\ UNCHANGED gql_vars

Next ==
  \/ check_keycloak
  \/ check_spring_boot
  \/ display_expected_matrix
  \/ request_token
  \/ test_endpoint
  \/ display_results_matrix
  \/ summary
  \/ jwt_main
  \/ jwt_get_jwt_token
  \/ jwt_test_endpoints
  \/ gql_check_keycloak
  \/ gql_check_graphql
  \/ gql_collect_all_tokens
  \/ gql_test_all_users_authentication
  \/ cku_get_admin_token
  \/ cku_create_user
  \/ cku_report

Spec == Init /\ [][Next]_vars

\* The same run started from an expectation matrix that may be incomplete.
SpecConfig == InitConfig /\ [][Next]_vars

TypeOK ==
  /\ pc \in {"off", "check_keycloak", "check_spring_boot",
             "display_expected_matrix", "token", "probe", "display",
             "summary", "done", "exit", "crashed"}
  /\ jwt_pc \in {"off", "main", "token", "endpoints", "done", "exit",
                 "blocked"}
  /\ gql_pc \in {"off", "check_keycloak", "check_graphql", "collect", "test",
                 "done", "exit"}
  /\ gql_idx \in 1..Len(GQL_TEST_USERS_keys)
  /\ cku_pc \in {"off", "main", "create", "report", "done", "blocked"}
  /\ cku_idx \in 1..Len(USERS_TO_CREATE)
  /\ cku_success_count \in -1..Len(USERS_TO_CREATE)
  /\ cku_message \in {"none", "no_auth", "all_created", "some_failed"}
  /\ user_idx \in 1..Len(TEST_USERS_keys)
  /\ endpoint_idx \in 1..Len(ENDPOINTS_keys)
  /\ exit_code \in {-1, 0, 1}
  /\ deviations \in 0..MaxDeviations

\* ------------------------------------------------------------------------
\* Properties
\* ------------------------------------------------------------------------

\* Positions of the log that hold a probe of the matrix.
ProbeIndexes == {i \in 1..Len(requests) : requests[i].kind = "probe"}

\* Positions of the log that hold a token request.
TokenIndexes == {i \in 1..Len(requests) : requests[i].kind = "token"}

\* The loop over TEST_USERS has ended and main holds the collected results.
CollectionDone == pc \in {"display", "summary", "done"}

\* The token request of user_key was made and gave no token.
TokenFailed(user_key) ==
  user_key \in DOMAIN token_log /\ token_log[user_key] # "token"

\* The token request of user_key was made and gave a token.
TokenObtained(user_key) ==
  user_key \in DOMAIN token_log /\ token_log[user_key] = "token"

\* C1: in a run of main, whatever the token endpoint and the resource server
\* answer, the collected results hold exactly one outcome for every
\* (user, endpoint) pair of TEST_USERS x ENDPOINTS: none is stored twice at
\* any time and, once the loop over the users has ended, none is missing.
C1_ExactlyOneOutcomePerPair ==
  /\ \A p \in Pairs : recorded[p] <= 1
  /\ CollectionDone =>
       /\ DOMAIN all_results = UserKeys
       /\ \A p \in Pairs :
            /\ recorded[p] = 1
            /\ p[2] \in DOMAIN all_results[p[1]]
       /\ \A u \in UserKeys : DOMAIN all_results[u] = EndpointKeys

\* C1 witness: a finished collection in which one user got no token, another
\* got one, and a probe failed at transport level.
C1_Witness ==
  /\ CollectionDone
  /\ \E u \in UserKeys : TokenFailed(u)
  /\ \E i \in ProbeIndexes : requests[i].status_code = 0

\* auth_required of an endpoint of v2_quick_test.py or of a query of
\* graphql_test.py, needs_auth of an endpoint of test-jwt.py.
RequiresAuth(endpoint_key) ==
  IF endpoint_key \in EndpointKeys
  THEN ENDPOINTS[endpoint_key].auth_required
  ELSE IF endpoint_key \in DOMAIN GRAPHQL_QUERIES /\ gql_pc # "off"
  THEN GRAPHQL_QUERIES[endpoint_key].auth_required
  ELSE \E i \in 1..Len(jwt_endpoints) :
          jwt_endpoints[i].name = endpoint_key /\ jwt_endpoints[i].needs_auth

\* C2: a request to an endpoint whose auth_required is false never carries
\* an Authorization header, whoever the user and whether or not a token was
\* obtained; a request to an endpoint whose auth_required is true carries
\* the bearer header whenever the user's token is available.
C2_CredentialOnlyWhereRequired ==
  \A i \in ProbeIndexes :
     LET r == requests[i]
     IN /\ ~RequiresAuth(r.endpoint_key) => r.authorization = None
        /\ (RequiresAuth(r.endpoint_key) /\ TokenObtained(r.user_key))
             => r.authorization \notin {None, "Bearer None"}

\* C2 witness: a user holding a token has probed the public endpoint and an
\* auth-required endpoint, after another user failed to get a token.
C2_Witness ==
  /\ \E u \in UserKeys : TokenFailed(u)
  /\ \E i, j \in ProbeIndexes :
        /\ requests[i].user_key = requests[j].user_key
        /\ TokenObtained(requests[i].user_key)
        /\ requests[i].endpoint_key = "public"
        /\ requests[i].authorization = None
        /\ RequiresAuth(requests[j].endpoint_key)
        /\ requests[j].authorization = TEST_USERS[requests[j].user_key]

\* The log holds a probe of (user_key, endpoint_key) sent without credential
\* whose status code is the one stored in all_results.
ProbedUnauthenticated(user_key, endpoint_key) ==
  \E i \in ProbeIndexes :
     /\ requests[i].user_key = user_key
     /\ requests[i].endpoint_key = endpoint_key
     /\ requests[i].authorization = None
     /\ requests[i].status_code = all_results[user_key][endpoint_key]

\* C3: when token acquisition fails for a user, every auth-required endpoint
\* is still requested for that user, without a credential, and the outcome
\* recorded for the pair is the resource server's answer to that request;
\* the pair is neither skipped nor filled with an assumed value.
C3_NoTokenStillProbesProtected ==
  \A u \in DOMAIN all_results :
     TokenFailed(u) =>
       \A e \in EndpointKeys :
          ENDPOINTS[e].auth_required => ProbedUnauthenticated(u, e)

\* C4: when token acquisition fails for a user, the public endpoint is still
\* requested for that user and the recorded outcome is the status the
\* resource server returned to that request.
C4_NoTokenStillProbesPublic ==
  \A u \in DOMAIN all_results :
     TokenFailed(u) =>
       \E i \in ProbeIndexes :
          /\ requests[i].user_key = u
          /\ requests[i].endpoint_key = "public"
          /\ all_results[u]["public"] = requests[i].status_code

\* C5: if the expectation matrix lacks an entry for a (user, endpoint) pair,
\* the run fails before any token request and before any probe of the matrix
\* is issued.
C5_IncompleteMatrixFailsBeforeProbing ==
  ~Complete(expected) => (TokenIndexes = {} /\ ProbeIndexes = {})

\* Cells of a user's row that differ from the expected code.
Mismatches(user_key) ==
  {e \in EndpointKeys : all_results[user_key][e] # expected[user_key][e]}

\* C6: a user's aggregate verdict is PASS if and only if every cell of the
\* user's row equals its expected code; a row with a single differing cell
\* is FAIL and a row equal to the expected row is PASS.
C6_UserPassIffAllCellsMatch ==
  \A u \in DOMAIN matrix :
     (matrix[u].status = "PASS") <=> (Mismatches(u) = {})

\* C6 witness: the matrix shows the basic user with manager observed as 200
\* instead of 403, every other cell as expected, next to a row equal to its
\* expected row.
C6_Witness ==
  /\ DOMAIN matrix = UserKeys
  /\ Mismatches("user") = {"manager"}
  /\ all_results["user"]["manager"] = 200
  /\ matrix["user"].status = "FAIL"
  /\ \E u \in UserKeys : Mismatches(u) = {} /\ matrix[u].status = "PASS"

\* C7: the verdict of one cell is MATCH (printed green or yellow) exactly
\* when the status code recorded for the pair equals the expected code of
\* the pair, and MISMATCH (printed red) otherwise, for every pair and every
\* recorded code, the 0 of a transport failure included.
C7_CellMatchIffCodesEqual ==
  \A u \in DOMAIN matrix : \A e \in EndpointKeys :
     (matrix[u].cells[e] # "RED") <=> (all_results[u][e] = expected[u][e])

\* C7 witness: the matrix shows a cell recorded as 0 after a transport
\* failure, a cell matching an expected 403 and a cell matching a 200.
C7_Witness ==
  /\ DOMAIN matrix = UserKeys
  /\ \E u \in UserKeys : \E e \in EndpointKeys :
        /\ TokenObtained(u)
        /\ all_results[u][e] = 0 /\ matrix[u].cells[e] = "RED"
  /\ \E u \in UserKeys : \E e \in EndpointKeys :
        all_results[u][e] = 403 /\ matrix[u].cells[e] = "YELLOW"
  /\ \E u \in UserKeys : \E e \in EndpointKeys :
        all_results[u][e] = 200 /\ matrix[u].cells[e] = "GREEN"

\* C8: the overall verdict of a run is PASSED if and only if every user's
\* aggregate verdict is PASS; one failing user makes it FAILED.
C8_OverallPassIffAllUsersPass ==
  verdict # "none" =>
    ((verdict = "PASSED") <=>
       \A u \in UserKeys : u \in DOMAIN matrix /\ matrix[u].status = "PASS")

\* C8 witness: a finished run in which exactly one user failed.
C8_Witness ==
  /\ verdict = "FAILED"
  /\ Cardinality({u \in DOMAIN matrix : matrix[u].status = "FAIL"}) = 1
  /\ Cardinality({u \in DOMAIN matrix : matrix[u].status = "PASS"}) = 2

\* The five cases of a raw response the classification must tell apart.
ResponseCase(status_code) ==
  CASE status_code = 0                      -> "TRANSPORT_ERROR"
    [] status_code \in 200..299             -> "SUCCESS"
    [] status_code = 401                    -> "UNAUTHENTICATED"
    [] status_code = 403                    -> "FORBIDDEN"
    [] OTHER                                -> "UNKNOWN"

\* C9: the classification of a probe's status is a total function of the
\* raw response: every 2xx is SUCCESS, 401 is UNAUTHENTICATED, 403 is
\* FORBIDDEN, a transport failure is TRANSPORT_ERROR, anything else is
\* UNKNOWN; two responses get the same class exactly when they fall in the
\* same one of these five cases.
C9_ClassificationSeparatesFiveCases ==
  \A i, j \in {k \in ProbeIndexes : requests[k].printed # "nothing"} :
     (requests[i].printed = requests[j].printed)
       <=> (ResponseCase(requests[i].status_code)
              = ResponseCase(requests[j].status_code))

\* The run has ended, in whatever way.
Terminated == pc \in {"done", "exit", "crashed"}

\* The run went through the users, the matrix and the summary.
RunComplete ==
  /\ pc = "done"
  /\ DOMAIN all_results = UserKeys
  /\ DOMAIN matrix = UserKeys
  /\ verdict # "none"

\* C10 as stated: no token-acquisition failure and no transport failure ends
\* the run early; a run that met one still processes every user, displays the
\* matrix and produces the summary.
C10_NoFailureEndsRunEarly ==
  (Terminated /\ Complete(expected) /\ failures # {}) => RunComplete

\* Positions of the log that hold a prerequisite request.
PrerequisiteIndexes ==
  {i \in 1..Len(requests) : requests[i].kind = "prerequisite"}

\* C10 amended: a failed prerequisite check halts the run before any token
\* request; once check_prerequisites has passed, no token-acquisition
\* failure and no transport failure ends the run early: the run always has a
\* next step until every user is processed, the matrix is displayed and the
\* summary is produced.
C10_NoFailureAfterPrerequisitesEndsRunEarly ==
  /\ pc = "exit" =>
       /\ PrerequisiteIndexes = 1..Len(requests)
       /\ requests[Len(requests)].status_code # 200
  /\ pc # "crashed"
  /\ pc \in {"token", "probe", "display", "summary"} => ENABLED Next
  /\ pc = "done" => RunComplete

\* C10 witness: a complete run in which the first user got no token, a later
\* user got one and a probe failed at transport level.
C10_Witness ==
  /\ RunComplete
  /\ TokenFailed("user")
  /\ TokenObtained("platform-admin")
  /\ "transport" \in failures

\* C11: a token-acquisition failure is surfaced distinctly in the recorded
\* outcomes: the result row of a user whose token acquisition failed differs
\* from the row of a user who obtained a token and whose probes all failed
\* at transport level.
C11_TokenFailureRowIsDistinct ==
  \A u, v \in DOMAIN all_results :
     (/\ TokenFailed(u)
      /\ TokenObtained(v)
      /\ \A e \in EndpointKeys : all_results[v][e] = 0)
       => all_results[u] # all_results[v]

\* The log holds, after position i, a probe of (user_key, endpoint_key).
ProbedAfter(i, user_key, endpoint_key) ==
  \E j \in ProbeIndexes :
     /\ j > i
     /\ requests[j].user_key = user_key
     /\ requests[j].endpoint_key = endpoint_key

\* Position of a key in a sequence of distinct keys.
IndexOf(keys, k) == CHOOSE n \in 1..Len(keys) : keys[n] = k

\* C12: a transport failure during one probe is recorded as that pair's
\* outcome and is not raised: once the loop over the users has ended, the
\* pair holds the returned value and every remaining endpoint of the same
\* user and every endpoint of every remaining user was probed afterwards.
C12_TransportFailureDoesNotStopProbing ==
  CollectionDone =>
    \A i \in ProbeIndexes :
       requests[i].status_code = 0 =>
         LET u  == requests[i].user_key
             un == IndexOf(TEST_USERS_keys, u)
             en == IndexOf(ENDPOINTS_keys, requests[i].endpoint_key)
         IN /\ all_results[u][requests[i].endpoint_key] = 0
            /\ \A n \in (en + 1)..Len(ENDPOINTS_keys) :
                  ProbedAfter(i, u, ENDPOINTS_keys[n])
            /\ \A m \in (un + 1)..Len(TEST_USERS_keys) :
                  \A n \in 1..Len(ENDPOINTS_keys) :
                     ProbedAfter(i, TEST_USERS_keys[m], ENDPOINTS_keys[n])

\* C13: the run ends with a failing exit status whenever the overall verdict
\* is FAILED and with a passing exit status only when every user's row
\* matches.
C13_ExitStatusFollowsVerdict ==
  pc = "done" => ((exit_code = 0) <=> (verdict = "PASSED"))

\* Number of token requests sent for user_key.
TokenRequests(user_key) ==
  Cardinality({i \in TokenIndexes : requests[i].user_key = user_key})

\* Every user key and username a token may be requested for.
AllUserKeys == UserKeys \cup Range(GQL_TEST_USERS_keys) \cup USERS

\* C14: within one run at most one token request is sent to the issuer per
\* user: a failed acquisition is never retried and a successful one is never
\* repeated for a later endpoint of the same user.
C14_OneTokenRequestPerUser ==
  \A u \in AllUserKeys : TokenRequests(u) <= 1

\* C14 witness: a finished run of the matrix in which one user failed to get
\* a token and another probed all four endpoints with the token it got.
C14_Witness ==
  /\ pc = "done"
  /\ \E u \in UserKeys : TokenFailed(u) /\ TokenRequests(u) = 1
  /\ \E u \in UserKeys :
        /\ TokenObtained(u) /\ TokenRequests(u) = 1
        /\ \A e \in EndpointKeys : recorded[<<u, e>>] = 1

\* The username a user key of v2_quick_test.py or graphql_test.py stands
\* for; the issuer's token for it is modelled by the username itself.
UsernameOf(user_key) ==
  IF user_key \in UserKeys THEN TEST_USERS[user_key]
  ELSE GQL_TEST_USERS[user_key]

\* C15: every credentialed probe issued for a user carries the token that
\* was acquired for that same user in this run: all credentialed probes of a
\* user carry one and the same token, and a token acquired for one user is
\* never attached to a probe recorded under another user.
C15_ProbeCarriesOwnToken ==
  jwt_pc = "off" =>
    /\ \A i \in ProbeIndexes :
          requests[i].authorization # None =>
            /\ TokenObtained(requests[i].user_key)
            /\ requests[i].authorization = UsernameOf(requests[i].user_key)
    /\ \A i, j \in ProbeIndexes :
          (/\ requests[i].authorization # None
           /\ requests[j].authorization # None
           /\ requests[i].user_key # requests[j].user_key)
            => requests[i].authorization # requests[j].authorization

\* C15 witness: two users of the matrix have each sent two credentialed
\* probes.
C15_Witness ==
  \E i, j, k, l \in ProbeIndexes :
     /\ pc # "off"
     /\ i # j /\ k # l
     /\ requests[i].user_key = requests[j].user_key
     /\ requests[k].user_key = requests[l].user_key
     /\ requests[i].user_key # requests[k].user_key
     /\ \A n \in {i, j, k, l} : requests[n].authorization # None

\* C16: for every user the token-acquisition attempt has completed, with a
\* token or a failure, before the first probe recorded under that user is
\* issued; no probe of a user precedes that user's token attempt.
C16_TokenAttemptPrecedesProbes ==
  \A i \in ProbeIndexes :
     \E j \in TokenIndexes :
        /\ j < i
        /\ requests[j].user_key = requests[i].user_key

\* C16 witness: the second user of the matrix is being probed after the
\* first user's token attempt failed.
C16_Witness ==
  /\ TokenFailed(TEST_USERS_keys[1])
  /\ \E i \in ProbeIndexes : requests[i].user_key = TEST_USERS_keys[2]

\* C17: a failed token acquisition reports which of the three causes
\* occurred (transport failure, non-200 answer of the issuer, 200 answer
\* without access_token): what get_jwt_token hands to its caller differs
\* between two failures of different cause.
C17_FailureCauseDistinguishable ==
  \A u, v \in UserKeys :
     (/\ TokenFailed(u) /\ TokenFailed(v)
      /\ token_log[u] # token_log[v])
       => get_jwt_token(TEST_USERS[u], token_log[u])
            # get_jwt_token(TEST_USERS[v], token_log[v])

\* The process has ended: the verification run, the single-user run of
\* test-jwt.py, the GraphQL run or the user-creation run returned or called
\* sys.exit.
Ended ==
  \/ pc \in {"done", "exit", "crashed"}
  \/ jwt_pc \in {"done", "exit"}
  \/ gql_pc \in {"done", "exit"}
  \/ cku_pc = "done"

\* The run under the scheduling of the interpreter: a step that can be
\* taken is taken.
SpecFair == Spec /\ WF_vars(Next)

\* C18: every request carries its own timeout, so under any behaviour of
\* the servers, including one that never responds, the run terminates.
C18_RunTerminates == <>Ended

\* C19: with the shipped expectation matrix a user whose token acquisition
\* failed is never shown PASS by display_results_matrix and is never among
\* the users the summary counts as having correct permissions.
C19_TokenFailedUserNeverPasses ==
  /\ \A u \in DOMAIN matrix : TokenFailed(u) => matrix[u].status = "FAIL"
  /\ successful_users # -1 =>
       successful_users
         = Cardinality({u \in UserKeys : TokenObtained(u) /\ Mismatches(u) = {}})

\* C19 witness: a finished run in which a user without token is shown FAIL
\* while the users with a token are counted.
C19_Witness ==
  /\ pc = "done"
  /\ successful_users = Len(TEST_USERS_keys) - 1
  /\ \E u \in DOMAIN matrix : TokenFailed(u) /\ matrix[u].status = "FAIL"

\* The PASS rows of display_results_matrix.
PassRows == {u \in DOMAIN matrix : matrix[u].status = "PASS"}

\* C20: the number of rows display_results_matrix marks PASS, computed over
\* the fixed column list, equals successful_users of the summary, computed
\* over ENDPOINTS.keys(); the two computations also agree on the row
\* being collected, whatever part of it is filled.
C20_MatrixAndSummaryAgree ==
  /\ successful_users # -1 => successful_users = Cardinality(PassRows)
  /\ pc = "probe" =>
       LET user_key == TEST_USERS_keys[user_idx]
       IN (matrix_row(results, expected[user_key]).status = "PASS")
            <=> (count_successful_users((user_key :> results), expected) = 1)

\* C20 witness: a finished run whose matrix has PASS rows and FAIL rows.
C20_Witness ==
  /\ pc = "done"
  /\ PassRows # {}
  /\ PassRows # DOMAIN matrix
  /\ successful_users = Cardinality(PassRows)

\* Positions of the creation log whose request returned 201 or 409.
CreatedOrExisting ==
  {i \in 1..Len(cku_requests) : cku_requests[i].status_code \in {201, 409}}

\* main of create-keycloak-users.py went through the whole list.
ListDone == cku_pc \in {"report", "done"} /\ cku_success_count # -1

\* C21: in create-keycloak-users.py no user-creation request is issued
\* unless an admin token was obtained, and every request carries it; the
\* requests go to the configured users in list order, one each, whatever
\* the earlier ones returned, and all of them have been sent when the loop
\* has ended; the reported success count is the number of requests that
\* returned 201 or 409; the 'All users created' message is printed if and
\* only if that count equals the number of configured users.
C21_CreationNeedsTokenAndCountsOnePerUser ==
  /\ cku_requests # <<>> => ~not_admin_token(cku_admin_token)
  /\ \A i \in 1..Len(cku_requests) :
        cku_requests[i].authorization = cku_admin_token
  /\ Len(cku_requests) <= Len(USERS_TO_CREATE)
  /\ \A i \in 1..Len(cku_requests) :
        cku_requests[i].username = USERS_TO_CREATE[i]
  /\ ListDone =>
       /\ Len(cku_requests) = Len(USERS_TO_CREATE)
       /\ cku_success_count = Cardinality(CreatedOrExisting)
  /\ cku_pc = "done" =>
       /\ cku_message # "none"
       /\ (cku_message = "all_created")
            <=> (cku_success_count = Len(USERS_TO_CREATE))

\* C21 witness: a finished run in which the first request failed, the other
\* two users were still asked for, one of them existing already, and two
\* successes were reported.
C21_Witness ==
  /\ cku_pc = "done"
  /\ Len(cku_requests) = Len(USERS_TO_CREATE)
  /\ cku_requests[1].status_code \notin {201, 409}
  /\ cku_requests[2].status_code = 409
  /\ cku_requests[3].status_code = 201
  /\ cku_success_count = 2
  /\ cku_message = "some_failed"

====
